---- MODULE Spec2Model ----
(***************************************************************************)
(* State-machine model of backend/server.py, the attendance backend:      *)
(* the four MongoDB collections (admin, jamaah, kajian, presensi), the    *)
(* bearer tokens issued by login, the server's local clock, the check-in  *)
(* requests in flight (create_presensi awaits the database four times,    *)
(* so its lookups and its insert are separate steps) and the last HTTP    *)
(* response sent.                                                          *)
(***************************************************************************)
EXTENDS Integers, Sequences, FiniteSets, TLC

VARIABLES admin, jamaah, kajian, presensi, uuid, tokens, clock, req, resp

vars == <<admin, jamaah, kajian, presensi, uuid, tokens, clock, req, resp>>

(***************************************************************************)
(* Bounds of the exploration.                                              *)
(***************************************************************************)
\* ids handed out per collection (uuid4 never repeats: an id is never reused)
MaxAdmin == 4
MaxJamaah == 2
MaxKajian == 1
\* attendees created while check-in requests race each other
RaceJamaah == 1
\* calendar days the clock runs through
MaxDate == 2
\* check-in requests that can be in flight at once
NumReq == 2

Dates == 1..MaxDate
\* Hours of the day the clock visits: both ends of the day and both sides of
\* the lower edge of the admission band.
Hours == <<0, 5, 6, 23>>
LastHour == Hours[Len(Hours)]
Requests == 1..NumReq

\* Python's None as a lookup result, and as a stored field value (BSON null).
None == [none |-> TRUE]
Null == "null"

Usernames == {"adminrh", "pesmarh"}
Passwords == {"cintaquran", "rhmantab", "testpass123"}
\* the password administrators are created and updated with
NewPasswords == {"testpass123"}
HpValues == {Null, "", "0812000111", "0812000222"}
Names == {"Budi"}
Titles == {"Kajian Subuh"}
\* tanggal strings: an ISO date, an ISO datetime of that day, and a string
\* that is no ISO date (create_kajian stores whatever it is given).
IsoDate(d) == <<"date", d>>
IsoDateTime(d) == <<"datetime", d>>
NotIso == <<"text", 0>>
TanggalValues == {IsoDate(d) : d \in Dates} \cup {IsoDateTime(d) : d \in Dates} \cup {NotIso}

(***************************************************************************)
(* The document store (motor / MongoDB): a collection is the sequence of  *)
(* its documents in insertion order, a filter is a record of field values *)
(* matched exactly.                                                        *)
(***************************************************************************)
Matches(doc, filter) ==
    \A k \in DOMAIN filter : k \in DOMAIN doc /\ doc[k] = filter[k]

FirstMatch(coll, filter) ==
    IF \E i \in 1..Len(coll) : Matches(coll[i], filter)
    THEN CHOOSE i \in 1..Len(coll) :
            /\ Matches(coll[i], filter)
            /\ \A j \in 1..(i - 1) : ~Matches(coll[j], filter)
    ELSE 0

find_one(coll, filter) ==
    IF FirstMatch(coll, filter) = 0 THEN None ELSE coll[FirstMatch(coll, filter)]

find(coll, filter) == SelectSeq(coll, LAMBDA doc : Matches(doc, filter))

\* cursor.to_list(length): at most length documents of the cursor
to_list(cursor, length) ==
    IF Len(cursor) <= length THEN cursor ELSE SubSeq(cursor, 1, length)

\* the length every to_list call of the server passes
ListLength == 1000

insert_one(coll, doc) == Append(coll, doc)

delete_one(coll, filter) ==
    LET i == FirstMatch(coll, filter)
    IN IF i = 0 THEN coll
       ELSE SubSeq(coll, 1, i - 1) \o SubSeq(coll, i + 1, Len(coll))

\* delete_one(...).deleted_count
deleted_count(coll, filter) == IF FirstMatch(coll, filter) = 0 THEN 0 ELSE 1

update_one(coll, filter, set) ==
    LET i == FirstMatch(coll, filter)
    IN IF i = 0 THEN coll
       ELSE [coll EXCEPT ![i] =
                [k \in DOMAIN coll[i] \cup DOMAIN set |->
                    IF k \in DOMAIN set THEN set[k] ELSE coll[i][k]]]

(***************************************************************************)
(* Responses.                                                              *)
(***************************************************************************)
HTTPException(status_code, detail) ==
    [status |-> status_code, success |-> FALSE, message |-> detail, data |-> None]

\* A 200 response of an administrator route or of login; the document or
\* message it carries is not kept.
Ok == [status |-> 200, success |-> TRUE, message |-> "OK", data |-> None]

PresensiResponse(success, message, data) ==
    [status |-> 200, success |-> success, message |-> message, data |-> data]

NoResponse == [status |-> 0, success |-> FALSE, message |-> "", data |-> None]

IsError(r) == "status" \in DOMAIN r /\ r.status >= 400

(***************************************************************************)
(* Credentials.                                                            *)
(***************************************************************************)
hash_password(password) == <<"bcrypt", password>>

verify_password(password, hashed) == hashed = <<"bcrypt", password>>

\* The token carries the username claim; tokens holds the tokens issued.
create_access_token(data) == data.username

\* get_current_admin that trusts the token's signature and looks nobody up
get_current_admin_signature_only(token) == [id |-> 0, username |-> token]

\* get_current_admin: the administrator the token's username names now, or 401.
get_current_admin(token) ==
    LET found == find_one(admin, [username |-> token])
    IN IF found = None THEN HTTPException(401, "Admin not found")
       ELSE [id |-> found.id, username |-> found.username]

\* A raised HTTPException: the response is the error and nothing is written.
Raise(error) ==
    /\ resp' = error
    /\ UNCHANGED <<admin, jamaah, kajian, presensi, uuid, tokens, clock, req>>

Admin(id, username, password_hash) ==
    [id |-> id, username |-> username, password_hash |-> password_hash]

\* init_database on a collection: seeds the two defaults when it is empty.
DefaultAdmins ==
    << [username |-> "adminrh", password |-> "cintaquran"],
       [username |-> "pesmarh", password |-> "rhmantab"] >>

\* SeedAdmins without the look at the collection: it seeds on every start
SeedAdmins_every_start(coll, next) ==
    coll \o [i \in 1..Len(DefaultAdmins) |->
                Admin(next + i, DefaultAdmins[i].username,
                      hash_password(DefaultAdmins[i].password))]

SeedAdmins(coll, next) ==
    IF find_one(coll, <<>>) = None
    THEN coll \o [i \in 1..Len(DefaultAdmins) |->
                    Admin(next + i, DefaultAdmins[i].username,
                          hash_password(DefaultAdmins[i].password))]
    ELSE coll

\* POST /auth/login
login(admin_login) ==
    LET found == find_one(admin, [username |-> admin_login.username])
    IN IF found = None \/ ~verify_password(admin_login.password, found.password_hash)
       THEN Raise(HTTPException(401, "Invalid credentials"))
       ELSE /\ tokens' = tokens \cup {create_access_token([username |-> found.username])}
            /\ resp' = Ok
            /\ UNCHANGED <<admin, jamaah, kajian, presensi, uuid, clock, req>>

(***************************************************************************)
(* Admin CRUD and startup seeding.                                         *)
(***************************************************************************)
\* startup_event -> init_database: a restart of the process on the stored data
init_database ==
    /\ admin' = SeedAdmins(admin, uuid.admin)
    /\ uuid' = [uuid EXCEPT !.admin = @ + (Len(admin') - Len(admin))]
    /\ UNCHANGED <<jamaah, kajian, presensi, tokens, clock, req, resp>>

\* create_admin without the username lookup
create_admin_unchecked(token, admin_create) ==
    LET current_admin == get_current_admin(token)
        new == Admin(uuid.admin + 1, admin_create.username,
                     hash_password(admin_create.password))
    IN IF IsError(current_admin) THEN Raise(current_admin)
       ELSE /\ admin' = insert_one(admin, new)
            /\ uuid' = [uuid EXCEPT !.admin = @ + 1]
            /\ resp' = Ok
            /\ UNCHANGED <<jamaah, kajian, presensi, tokens, clock, req>>

\* POST /admin
create_admin(token, admin_create) ==
    LET current_admin == get_current_admin(token)
        existing == find_one(admin, [username |-> admin_create.username])
        new == Admin(uuid.admin + 1, admin_create.username,
                     hash_password(admin_create.password))
    IN IF IsError(current_admin) THEN Raise(current_admin)
       ELSE IF existing # None
       THEN Raise(HTTPException(400, "Username already exists"))
       ELSE /\ admin' = insert_one(admin, new)
            /\ uuid' = [uuid EXCEPT !.admin = @ + 1]
            /\ resp' = Ok
            /\ UNCHANGED <<jamaah, kajian, presensi, tokens, clock, req>>

\* PUT /admin/{admin_id}
update_admin(token, admin_id, admin_update) ==
    LET current_admin == get_current_admin(token)
        found == find_one(admin, [id |-> admin_id])
        update_data == [username |-> admin_update.username,
                        password_hash |-> hash_password(admin_update.password)]
        updated == update_one(admin, [id |-> admin_id], update_data)
    IN IF IsError(current_admin) THEN Raise(current_admin)
       ELSE IF found = None THEN Raise(HTTPException(404, "Admin not found"))
       ELSE /\ admin' = updated
            /\ resp' = Ok
            /\ UNCHANGED <<jamaah, kajian, presensi, uuid, tokens, clock, req>>

\* DELETE /admin/{admin_id}
delete_admin(token, admin_id) ==
    LET current_admin == get_current_admin(token)
    IN IF IsError(current_admin) THEN Raise(current_admin)
       ELSE IF deleted_count(admin, [id |-> admin_id]) = 0
       THEN Raise(HTTPException(404, "Admin not found"))
       ELSE /\ admin' = delete_one(admin, [id |-> admin_id])
            /\ resp' = Ok
            /\ UNCHANGED <<jamaah, kajian, presensi, uuid, tokens, clock, req>>

(***************************************************************************)
(* Jamaah CRUD.                                                            *)
(***************************************************************************)
Jamaah(id, fields) == [id |-> id, nama |-> fields.nama, hp |-> fields.hp]

\* Python truthiness of Optional[str]: None and "" are false.
Truthy(s) == s # Null /\ s # ""

\* create_jamaah with the phone lookup made for every hp, empty or not
create_jamaah_always_checks(token, jamaah_create) ==
    LET current_admin == get_current_admin(token)
        existing == find_one(jamaah, [hp |-> jamaah_create.hp])
        new == Jamaah(uuid.jamaah + 1, jamaah_create)
    IN IF IsError(current_admin) THEN Raise(current_admin)
       ELSE IF existing # None
       THEN Raise(HTTPException(400, "Phone number already exists"))
       ELSE /\ jamaah' = insert_one(jamaah, new)
            /\ uuid' = [uuid EXCEPT !.jamaah = @ + 1]
            /\ resp' = Ok
            /\ UNCHANGED <<admin, kajian, presensi, tokens, clock, req>>

\* POST /jamaah
create_jamaah(token, jamaah_create) ==
    LET current_admin == get_current_admin(token)
        existing == find_one(jamaah, [hp |-> jamaah_create.hp])
        new == Jamaah(uuid.jamaah + 1, jamaah_create)
    IN IF IsError(current_admin) THEN Raise(current_admin)
       ELSE IF Truthy(jamaah_create.hp) /\ existing # None
       THEN Raise(HTTPException(400, "Phone number already exists"))
       ELSE /\ jamaah' = insert_one(jamaah, new)
            /\ uuid' = [uuid EXCEPT !.jamaah = @ + 1]
            /\ resp' = Ok
            /\ UNCHANGED <<admin, kajian, presensi, tokens, clock, req>>

\* PUT /jamaah/{jamaah_id}
update_jamaah(token, jamaah_id, jamaah_update) ==
    LET current_admin == get_current_admin(token)
        found == find_one(jamaah, [id |-> jamaah_id])
        updated == update_one(jamaah, [id |-> jamaah_id],
                              [nama |-> jamaah_update.nama, hp |-> jamaah_update.hp])
    IN IF IsError(current_admin) THEN Raise(current_admin)
       ELSE IF found = None THEN Raise(HTTPException(404, "Jamaah not found"))
       ELSE /\ jamaah' = updated
            /\ resp' = Ok
            /\ UNCHANGED <<admin, kajian, presensi, uuid, tokens, clock, req>>

\* delete_jamaah that also deletes the attendance records of the attendee
delete_jamaah_cascading(token, jamaah_id) ==
    LET current_admin == get_current_admin(token)
    IN IF IsError(current_admin) THEN Raise(current_admin)
       ELSE IF deleted_count(jamaah, [id |-> jamaah_id]) = 0
       THEN Raise(HTTPException(404, "Jamaah not found"))
       ELSE /\ jamaah' = delete_one(jamaah, [id |-> jamaah_id])
            /\ presensi' = SelectSeq(presensi, LAMBDA doc : doc.id_jamaah # jamaah_id)
            /\ resp' = Ok
            /\ UNCHANGED <<admin, kajian, uuid, tokens, clock, req>>

\* DELETE /jamaah/{jamaah_id}
delete_jamaah(token, jamaah_id) ==
    LET current_admin == get_current_admin(token)
    IN IF IsError(current_admin) THEN Raise(current_admin)
       ELSE IF deleted_count(jamaah, [id |-> jamaah_id]) = 0
       THEN Raise(HTTPException(404, "Jamaah not found"))
       ELSE /\ jamaah' = delete_one(jamaah, [id |-> jamaah_id])
            /\ resp' = Ok
            /\ UNCHANGED <<admin, kajian, presensi, uuid, tokens, clock, req>>

(***************************************************************************)
(* Kajian CRUD.                                                            *)
(***************************************************************************)
Kajian(id, fields) ==
    [id |-> id, judul |-> fields.judul, tanggal |-> fields.tanggal,
     jam_mulai |-> fields.jam_mulai, jam_selesai |-> fields.jam_selesai]

\* POST /kajian
create_kajian(token, kajian_create) ==
    LET current_admin == get_current_admin(token)
        new == Kajian(uuid.kajian + 1, kajian_create)
    IN IF IsError(current_admin) THEN Raise(current_admin)
       ELSE /\ kajian' = insert_one(kajian, new)
            /\ uuid' = [uuid EXCEPT !.kajian = @ + 1]
            /\ resp' = Ok
            /\ UNCHANGED <<admin, jamaah, presensi, tokens, clock, req>>

\* PUT /kajian/{kajian_id}
update_kajian(token, kajian_id, kajian_update) ==
    LET current_admin == get_current_admin(token)
        found == find_one(kajian, [id |-> kajian_id])
    IN IF IsError(current_admin) THEN Raise(current_admin)
       ELSE IF found = None THEN Raise(HTTPException(404, "Kajian not found"))
       ELSE /\ kajian' = update_one(kajian, [id |-> kajian_id],
                            [judul |-> kajian_update.judul,
                             tanggal |-> kajian_update.tanggal,
                             jam_mulai |-> kajian_update.jam_mulai,
                             jam_selesai |-> kajian_update.jam_selesai])
            /\ resp' = Ok
            /\ UNCHANGED <<admin, jamaah, presensi, uuid, tokens, clock, req>>

\* DELETE /kajian/{kajian_id}
delete_kajian(token, kajian_id) ==
    LET current_admin == get_current_admin(token)
    IN IF IsError(current_admin) THEN Raise(current_admin)
       ELSE IF deleted_count(kajian, [id |-> kajian_id]) = 0
       THEN Raise(HTTPException(404, "Kajian not found"))
       ELSE /\ kajian' = delete_one(kajian, [id |-> kajian_id])
            /\ resp' = Ok
            /\ UNCHANGED <<admin, jamaah, presensi, uuid, tokens, clock, req>>

(***************************************************************************)
(* POST /presensi: create_presensi.  The handler awaits the database four *)
(* times; each await is one step of the request, and other requests and   *)
(* the clock move between the steps.                                       *)
(***************************************************************************)
\* The messages of PresensiResponse, without the emoji three of them start with.
SessionNotFound == "Kajian tidak ditemukan"
AttendeeNotFound == "Jamaah tidak ditemukan"
AlreadyRecorded == "Anda sudah presensi untuk kajian ini."
WindowClosed == "Waktu presensi sudah berakhir."
Accepted == "Presensi berhasil, semoga bermanfaat ilmunya."

IdleRequest ==
    [pc |-> "idle", id_jamaah |-> 0, id_kajian |-> 0,
     kajian |-> None, jamaah |-> None, presensi |-> None]

Presensi(id, fields, now) ==
    [id |-> id, id_jamaah |-> fields.id_jamaah, id_kajian |-> fields.id_kajian,
     waktu_presensi |-> now]

\* datetime.fromisoformat(s).date(): the day of an ISO date or datetime;
\* any other string raises ValueError.
ValueError == [error |-> "ValueError"]
fromisoformat_date(s) ==
    IF s[1] \in {"date", "datetime"} THEN [date |-> s[2]] ELSE ValueError

\* the band opened one hour early
InAdmissionBand_from_five(current_hour) == 5 <= current_hour /\ current_hour <= 23

\* 6 <= current_hour <= 23
InAdmissionBand(current_hour) == 6 <= current_hour /\ current_hour <= 23

\* The request ends: its response is sent and its slot is free again.
Respond(p, response) ==
    /\ resp' = response
    /\ req' = [req EXCEPT ![p] = IdleRequest]

\* kajian = await db.kajian.find_one({"id": presensi_create.id_kajian})
find_kajian(p, presensi_create) ==
    LET found == find_one(kajian, [id |-> presensi_create.id_kajian])
    IN /\ req[p].pc = "idle"
       /\ IF found = None
          THEN Respond(p, PresensiResponse(FALSE, SessionNotFound, None))
          ELSE /\ req' = [req EXCEPT ![p] =
                            [IdleRequest EXCEPT !.pc = "find_jamaah",
                                                !.id_jamaah = presensi_create.id_jamaah,
                                                !.id_kajian = presensi_create.id_kajian,
                                                !.kajian = found]]
               /\ UNCHANGED resp
       /\ UNCHANGED <<admin, jamaah, kajian, presensi, uuid, tokens, clock>>

\* jamaah = await db.jamaah.find_one({"id": presensi_create.id_jamaah})
find_jamaah(p) ==
    LET found == find_one(jamaah, [id |-> req[p].id_jamaah])
    IN /\ req[p].pc = "find_jamaah"
       /\ IF found = None
          THEN Respond(p, PresensiResponse(FALSE, AttendeeNotFound, None))
          ELSE /\ req' = [req EXCEPT ![p].pc = "find_existing", ![p].jamaah = found]
               /\ UNCHANGED resp
       /\ UNCHANGED <<admin, jamaah, kajian, presensi, uuid, tokens, clock>>

\* find_existing without the duplicate rejection
find_existing_unguarded(p) ==
    /\ req[p].pc = "find_existing"
    /\ req' = [req EXCEPT ![p].pc = "validate_time"]
    /\ UNCHANGED <<admin, jamaah, kajian, presensi, uuid, tokens, clock, resp>>

\* find_existing with the date check moved ahead of the duplicate lookup
find_existing_date_first(p) ==
    LET existing == find_one(presensi, [id_jamaah |-> req[p].id_jamaah,
                                        id_kajian |-> req[p].id_kajian])
        kajian_date == fromisoformat_date(req[p].kajian.tanggal)
    IN /\ req[p].pc = "find_existing"
       /\ IF kajian_date # ValueError /\ kajian_date # [date |-> clock.date]
          THEN Respond(p, PresensiResponse(FALSE, WindowClosed, None))
          ELSE IF existing # None
          THEN Respond(p, PresensiResponse(FALSE, AlreadyRecorded, None))
          ELSE /\ req' = [req EXCEPT ![p].pc = "validate_time"]
               /\ UNCHANGED resp
       /\ UNCHANGED <<admin, jamaah, kajian, presensi, uuid, tokens, clock>>

\* existing = await db.presensi.find_one({"id_jamaah": ..., "id_kajian": ...})
find_existing(p) ==
    LET existing == find_one(presensi, [id_jamaah |-> req[p].id_jamaah,
                                        id_kajian |-> req[p].id_kajian])
    IN /\ req[p].pc = "find_existing"
       /\ IF existing # None
          THEN Respond(p, PresensiResponse(FALSE, AlreadyRecorded, None))
          ELSE /\ req' = [req EXCEPT ![p].pc = "validate_time"]
               /\ UNCHANGED resp
       /\ UNCHANGED <<admin, jamaah, kajian, presensi, uuid, tokens, clock>>

\* validate_time without the date comparison
validate_time_hour_only(p) ==
    LET current_time == clock
        kajian_date == fromisoformat_date(req[p].kajian.tanggal)
        new == Presensi(uuid.presensi + 1, req[p], current_time)
    IN /\ req[p].pc = "validate_time"
       /\ IF kajian_date = ValueError
          THEN Respond(p, HTTPException(500, "Internal Server Error")) /\ UNCHANGED uuid
          ELSE IF ~InAdmissionBand(current_time.hour)
          THEN Respond(p, PresensiResponse(FALSE, WindowClosed, None)) /\ UNCHANGED uuid
          ELSE /\ req' = [req EXCEPT ![p].pc = "insert", ![p].presensi = new]
               /\ uuid' = [uuid EXCEPT !.presensi = @ + 1]
               /\ UNCHANGED resp
       /\ UNCHANGED <<admin, jamaah, kajian, presensi, tokens, clock>>

\* strftime("%H:%M") of the hours the clock visits
TimeOfDay(hour) ==
    CASE hour = 0 -> "00:00" [] hour = 5 -> "05:00"
      [] hour = 6 -> "06:00" [] hour = 23 -> "23:00"

\* the hour an "HH:00" time of day names
HourOfDay(jam) == CHOOSE hour \in {Hours[i] : i \in 1..Len(Hours)} : TimeOfDay(hour) = jam

\* validate_time admitting from the session's jam_mulai on, not from 6
validate_time_from_session_start(p) ==
    LET current_time == clock
        kajian_date == fromisoformat_date(req[p].kajian.tanggal)
        kajian_start == req[p].kajian.jam_mulai
        new == Presensi(uuid.presensi + 1, req[p], current_time)
    IN /\ req[p].pc = "validate_time"
       /\ IF kajian_date = ValueError
          THEN Respond(p, HTTPException(500, "Internal Server Error")) /\ UNCHANGED uuid
          ELSE IF kajian_date.date # current_time.date
          THEN Respond(p, PresensiResponse(FALSE, WindowClosed, None)) /\ UNCHANGED uuid
          ELSE IF ~(HourOfDay(kajian_start) <= current_time.hour /\ current_time.hour <= 23)
          THEN Respond(p, PresensiResponse(FALSE, WindowClosed, None)) /\ UNCHANGED uuid
          ELSE /\ req' = [req EXCEPT ![p].pc = "insert", ![p].presensi = new]
               /\ uuid' = [uuid EXCEPT !.presensi = @ + 1]
               /\ UNCHANGED resp
       /\ UNCHANGED <<admin, jamaah, kajian, presensi, tokens, clock>>

\* current_time = datetime.now() and the two window checks, on the kajian
\* document loaded by the first step; then Presensi(...) is built.
validate_time(p) ==
    LET current_time == clock
        kajian_date == fromisoformat_date(req[p].kajian.tanggal)
        new == Presensi(uuid.presensi + 1, req[p], current_time)
    IN /\ req[p].pc = "validate_time"
       /\ IF kajian_date = ValueError
          THEN Respond(p, HTTPException(500, "Internal Server Error")) /\ UNCHANGED uuid
          ELSE IF kajian_date.date # current_time.date
          THEN Respond(p, PresensiResponse(FALSE, WindowClosed, None)) /\ UNCHANGED uuid
          ELSE IF ~InAdmissionBand(current_time.hour)
          THEN Respond(p, PresensiResponse(FALSE, WindowClosed, None)) /\ UNCHANGED uuid
          ELSE /\ req' = [req EXCEPT ![p].pc = "insert", ![p].presensi = new]
               /\ uuid' = [uuid EXCEPT !.presensi = @ + 1]
               /\ UNCHANGED resp
       /\ UNCHANGED <<admin, jamaah, kajian, presensi, tokens, clock>>

\* insert_presensi writing the record twice
insert_presensi_twice(p) ==
    /\ req[p].pc = "insert"
    /\ presensi' = insert_one(insert_one(presensi, req[p].presensi), req[p].presensi)
    /\ Respond(p, PresensiResponse(TRUE, Accepted,
                    [jamaah |-> req[p].jamaah.nama, kajian |-> req[p].kajian.judul]))
    /\ UNCHANGED <<admin, jamaah, kajian, uuid, tokens, clock>>

\* await db.presensi.insert_one(presensi.dict()), then the success response
insert_presensi(p) ==
    /\ req[p].pc = "insert"
    /\ presensi' = insert_one(presensi, req[p].presensi)
    /\ Respond(p, PresensiResponse(TRUE, Accepted,
                    [jamaah |-> req[p].jamaah.nama, kajian |-> req[p].kajian.judul]))
    /\ UNCHANGED <<admin, jamaah, kajian, uuid, tokens, clock>>

\* The server's local clock moves on to the next hour it visits.
Tick ==
    /\ \/ \E i \in 1..(Len(Hours) - 1) :
            clock.hour = Hours[i] /\ clock' = [clock EXCEPT !.hour = Hours[i + 1]]
       \/ /\ clock.hour = LastHour
          /\ clock.date < MaxDate
          /\ clock' = [date |-> clock.date + 1, hour |-> Hours[1]]
    /\ UNCHANGED <<admin, jamaah, kajian, presensi, uuid, tokens, req, resp>>

(***************************************************************************)
(* Reports: GET /laporan/{kajian_id} and GET /laporan/{kajian_id}/export.  *)
(***************************************************************************)
\* A 200 response that carries content (a JSON body or a streamed file).
OkWith(content) == [status |-> 200, success |-> TRUE, message |-> "OK", data |-> content]

\* report_data with a row for every record, found attendee or not
report_data_unfiltered(presensi_list) ==
    [i \in 1..Len(presensi_list) |->
        LET found == find_one(jamaah, [id |-> presensi_list[i].id_jamaah])
        IN [nama |-> IF found # None THEN found.nama ELSE Null,
            hp |-> IF found # None THEN found.hp ELSE Null,
            waktu_presensi |-> presensi_list[i].waktu_presensi]]

\* The loop of get_attendance_report over presensi_list: one row per record
\* whose attendee is found, in the order of the list.
report_data(presensi_list) ==
    LET rows[i \in 0..Len(presensi_list)] ==
            IF i = 0 THEN <<>>
            ELSE LET found == find_one(jamaah, [id |-> presensi_list[i].id_jamaah])
                 IN IF found # None
                    THEN Append(rows[i - 1],
                                [nama |-> found.nama, hp |-> found.hp,
                                 waktu_presensi |-> presensi_list[i].waktu_presensi])
                    ELSE rows[i - 1]
    IN rows[Len(presensi_list)]

\* GET /laporan/{kajian_id}
get_attendance_report(token, kajian_id) ==
    LET current_admin == get_current_admin(token)
        found == find_one(kajian, [id |-> kajian_id])
        presensi_list == to_list(find(presensi, [id_kajian |-> kajian_id]), ListLength)
        rows == report_data(presensi_list)
    IN IF IsError(current_admin) THEN Raise(current_admin)
       ELSE IF found = None THEN Raise(HTTPException(404, "Kajian not found"))
       ELSE /\ resp' = OkWith([kajian |-> found, total_hadir |-> Len(rows),
                               detail_kehadiran |-> rows])
            /\ UNCHANGED <<admin, jamaah, kajian, presensi, uuid, tokens, clock, req>>

\* f'"{str(cell)}"' of a text cell, of a number and of an optional text
\* (str(None) is "None").
Quoted(text) == <<"quote", text, "quote">>
DecimalDigits(n) == <<"digits", n>>
StrOptional(s) == IF s = Null THEN "None" ELSE s

CsvHeader == <<Quoted("No"), Quoted("Nama Jamaah"), Quoted("No HP"), Quoted("Waktu Presensi")>>

\* The loop of export_attendance_csv: enumerate(presensi_list, 1) numbers the
\* records of the list, and a row is written for a record whose attendee is
\* found, carrying the number of the record.
csv_data(presensi_list) ==
    LET rows[i \in 0..Len(presensi_list)] ==
            IF i = 0 THEN <<CsvHeader>>
            ELSE LET found == find_one(jamaah, [id |-> presensi_list[i].id_jamaah])
                 IN IF found # None
                    THEN Append(rows[i - 1],
                                <<Quoted(DecimalDigits(i)), Quoted(found.nama),
                                  Quoted(StrOptional(found.hp)),
                                  Quoted(presensi_list[i].waktu_presensi)>>)
                    ELSE rows[i - 1]
    IN rows[Len(presensi_list)]

\* GET /laporan/{kajian_id}/export: the streamed body is the lines of the CSV
export_attendance_csv(token, kajian_id) ==
    LET current_admin == get_current_admin(token)
        found == find_one(kajian, [id |-> kajian_id])
        presensi_list == to_list(find(presensi, [id_kajian |-> kajian_id]), ListLength)
    IN IF IsError(current_admin) THEN Raise(current_admin)
       ELSE IF found = None THEN Raise(HTTPException(404, "Kajian not found"))
       ELSE /\ resp' = OkWith([csv |-> csv_data(presensi_list),
                               filename |-> <<"presensi_", found.judul, "_",
                                              found.tanggal, ".csv">>])
            /\ UNCHANGED <<admin, jamaah, kajian, presensi, uuid, tokens, clock, req>>

(***************************************************************************)
(* The list routes, the public session route and the QR code.             *)
(***************************************************************************)
\* The JSON array a list route returns.
List(items) == [list |-> items]

AdminResponse(doc) == [id |-> doc.id, username |-> doc.username]

\* GET /admin
get_admins(token) ==
    LET current_admin == get_current_admin(token)
        admins == to_list(find(admin, <<>>), ListLength)
    IN IF IsError(current_admin) THEN Raise(current_admin)
       ELSE /\ resp' = OkWith(List([i \in 1..Len(admins) |-> AdminResponse(admins[i])]))
            /\ UNCHANGED <<admin, jamaah, kajian, presensi, uuid, tokens, clock, req>>

\* GET /jamaah
get_jamaah(token) ==
    LET current_admin == get_current_admin(token)
    IN IF IsError(current_admin) THEN Raise(current_admin)
       ELSE /\ resp' = OkWith(List(to_list(find(jamaah, <<>>), ListLength)))
            /\ UNCHANGED <<admin, jamaah, kajian, presensi, uuid, tokens, clock, req>>

\* GET /kajian
get_kajian(token) ==
    LET current_admin == get_current_admin(token)
    IN IF IsError(current_admin) THEN Raise(current_admin)
       ELSE /\ resp' = OkWith(List(to_list(find(kajian, <<>>), ListLength)))
            /\ UNCHANGED <<admin, jamaah, kajian, presensi, uuid, tokens, clock, req>>

\* GET /kajian/{kajian_id}/public
get_kajian_public(kajian_id) ==
    LET found == find_one(kajian, [id |-> kajian_id])
    IN IF found = None THEN Raise(HTTPException(404, "Kajian not found"))
       ELSE /\ resp' = OkWith(found)
            /\ UNCHANGED <<admin, jamaah, kajian, presensi, uuid, tokens, clock, req>>

\* os.environ.get('FRONTEND_URL', 'http://localhost:3000')
FRONTEND_URL == "http://localhost:3000"

\* f"{FRONTEND_URL}/presensi/{kajian_id}"
qr_data(kajian_id) == <<FRONTEND_URL, "/presensi/", kajian_id>>

\* The PNG image of the QR code of a text.
QrPng(text) == [media_type |-> "image/png", encodes |-> text]

\* generate_qr_code without the session lookup
generate_qr_code_unvalidated(token, kajian_id) ==
    LET current_admin == get_current_admin(token)
    IN IF IsError(current_admin) THEN Raise(current_admin)
       ELSE /\ resp' = OkWith(QrPng(qr_data(kajian_id)))
            /\ UNCHANGED <<admin, jamaah, kajian, presensi, uuid, tokens, clock, req>>

\* GET /kajian/{kajian_id}/qr
generate_qr_code(token, kajian_id) ==
    LET current_admin == get_current_admin(token)
        found == find_one(kajian, [id |-> kajian_id])
    IN IF IsError(current_admin) THEN Raise(current_admin)
       ELSE IF found = None THEN Raise(HTTPException(404, "Kajian not found"))
       ELSE /\ resp' = OkWith(QrPng(qr_data(kajian_id)))
            /\ UNCHANGED <<admin, jamaah, kajian, presensi, uuid, tokens, clock, req>>

(***************************************************************************)
(* Initial state: the process has started on an empty database, so        *)
(* startup_event has seeded the two default administrators.               *)
(***************************************************************************)
Init ==
    /\ admin = SeedAdmins(<<>>, 0)
    /\ jamaah = <<>>
    /\ kajian = <<>>
    /\ presensi = <<>>
    /\ uuid = [admin |-> Len(DefaultAdmins), jamaah |-> 0, kajian |-> 0, presensi |-> 0]
    /\ tokens = {}
    /\ clock = [date |-> 1, hour |-> Hours[1]]
    /\ req = [p \in Requests |-> IdleRequest]
    /\ resp = NoResponse

(***************************************************************************)
(* The attendee roster under administrator operations.                    *)
(***************************************************************************)
Login == \E u \in Usernames, pw \in Passwords : login([username |-> u, password |-> pw])

CreateJamaah ==
    \E t \in tokens, n \in Names, hp \in HpValues :
        /\ create_jamaah(t, [nama |-> n, hp |-> hp])
        /\ uuid'.jamaah <= MaxJamaah

UpdateJamaah ==
    \E t \in tokens, id \in 1..MaxJamaah, n \in Names, hp \in HpValues :
        update_jamaah(t, id, [nama |-> n, hp |-> hp])

DeleteJamaah == \E t \in tokens, id \in 1..MaxJamaah : delete_jamaah(t, id)

NextJamaah == Login \/ CreateJamaah \/ UpdateJamaah \/ DeleteJamaah

SpecJamaah == Init /\ [][NextJamaah]_vars

(***************************************************************************)
(* The administrator collection under restarts and administrator           *)
(* operations.                                                             *)
(***************************************************************************)
InitDatabase ==
    /\ init_database
    /\ uuid'.admin <= MaxAdmin

CreateAdmin ==
    \E t \in tokens, u \in Usernames, pw \in NewPasswords :
        /\ create_admin(t, [username |-> u, password |-> pw])
        /\ uuid'.admin <= MaxAdmin

UpdateAdmin ==
    \E t \in tokens, id \in 1..MaxAdmin, u \in Usernames, pw \in NewPasswords :
        update_admin(t, id, [username |-> u, password |-> pw])

DeleteAdmin == \E t \in tokens, id \in 1..MaxAdmin : delete_admin(t, id)

NextAdmin == InitDatabase \/ Login \/ CreateAdmin \/ UpdateAdmin \/ DeleteAdmin

SpecAdmin == Init /\ [][NextAdmin]_vars

(***************************************************************************)
(* The admission gate: check-in requests interleaved with each other, the *)
(* clock and the administrator operations on attendees and sessions.      *)
(***************************************************************************)
GateLogin == login([username |-> "adminrh", password |-> "cintaquran"])

CreateJamaahUpTo(limit) ==
    \E t \in tokens, n \in Names :
        /\ create_jamaah(t, [nama |-> n, hp |-> Null])
        /\ uuid'.jamaah <= limit

DeleteJamaahUpTo(limit) == \E t \in tokens, id \in 1..limit : delete_jamaah(t, id)

\* the tanggal strings sessions get while check-in requests race each other
RaceTanggal == {IsoDate(d) : d \in Dates} \cup {NotIso}

KajianInputs(tanggal) ==
    [judul : Titles, tanggal : tanggal, jam_mulai : {"05:00"}, jam_selesai : {"06:00"}]

CreateKajianUpTo(limit, tanggal) ==
    \E t \in tokens, k \in KajianInputs(tanggal) :
        /\ create_kajian(t, k)
        /\ uuid'.kajian <= limit

UpdateKajianUpTo(limit, tanggal) ==
    \E t \in tokens, id \in 1..limit, k \in KajianInputs(tanggal) :
        update_kajian(t, id, k)

DeleteKajianUpTo(limit) == \E t \in tokens, id \in 1..limit : delete_kajian(t, id)

\* A check-in is submitted to a free request slot.
FindKajianUpTo(slots, jamaah_limit, kajian_limit) ==
    \E p \in slots, a \in 1..jamaah_limit, s \in 1..kajian_limit :
        find_kajian(p, [id_jamaah |-> a, id_kajian |-> s])

FindJamaah == \E p \in Requests : find_jamaah(p)

FindExisting == \E p \in Requests : find_existing(p)

ValidateTime == \E p \in Requests : validate_time(p)

InsertPresensi == \E p \in Requests : insert_presensi(p)

GateCreateJamaah == CreateJamaahUpTo(RaceJamaah)
GateDeleteJamaah == DeleteJamaahUpTo(RaceJamaah)
CreateKajian == CreateKajianUpTo(MaxKajian, RaceTanggal)
UpdateKajian == UpdateKajianUpTo(MaxKajian, RaceTanggal)
DeleteKajian == DeleteKajianUpTo(MaxKajian)
FindKajian == FindKajianUpTo(Requests, RaceJamaah, MaxKajian)

Next ==
    \/ GateLogin
    \/ GateCreateJamaah \/ GateDeleteJamaah
    \/ CreateKajian \/ UpdateKajian \/ DeleteKajian
    \/ FindKajian \/ FindJamaah \/ FindExisting \/ ValidateTime \/ InsertPresensi
    \/ Tick

Spec == Init /\ [][Next]_vars

(***************************************************************************)
(* The admission gate with check-ins submitted one after another: while a *)
(* request is being handled nothing else happens, so each handler runs    *)
(* on one state of the store and one reading of the clock.                *)
(***************************************************************************)
Quiet == \A p \in Requests : req[p].pc = "idle"

SeqLogin == Quiet /\ GateLogin
SeqCreateJamaah == Quiet /\ CreateJamaahUpTo(MaxJamaah)
SeqDeleteJamaah == Quiet /\ DeleteJamaahUpTo(MaxJamaah)
SeqCreateKajian == Quiet /\ CreateKajianUpTo(MaxKajian, TanggalValues)
SeqUpdateKajian == Quiet /\ UpdateKajianUpTo(MaxKajian, TanggalValues)
SeqDeleteKajian == Quiet /\ DeleteKajianUpTo(MaxKajian)
SeqFindKajian == Quiet /\ FindKajianUpTo({1}, MaxJamaah, MaxKajian)
SeqTick == Quiet /\ Tick

SeqNext ==
    \/ SeqLogin
    \/ SeqCreateJamaah \/ SeqDeleteJamaah
    \/ SeqCreateKajian \/ SeqUpdateKajian \/ SeqDeleteKajian
    \/ SeqFindKajian \/ FindJamaah \/ FindExisting \/ ValidateTime \/ InsertPresensi
    \/ SeqTick

SeqSpec == Init /\ [][SeqNext]_vars

(***************************************************************************)
(* Reporting: the check-ins of SeqSpec, and reports and exports pulled    *)
(* between them.                                                           *)
(***************************************************************************)
GetAttendanceReport ==
    Quiet /\ \E t \in tokens, s \in 1..MaxKajian : get_attendance_report(t, s)

ExportAttendanceCsv ==
    Quiet /\ \E t \in tokens, s \in 1..MaxKajian : export_attendance_csv(t, s)

ReportCreateKajian == Quiet /\ CreateKajianUpTo(MaxKajian, RaceTanggal)

ReportNext ==
    \/ SeqLogin
    \/ SeqCreateJamaah \/ SeqDeleteJamaah
    \/ ReportCreateKajian \/ SeqDeleteKajian
    \/ SeqFindKajian \/ FindJamaah \/ FindExisting \/ ValidateTime \/ InsertPresensi
    \/ SeqTick
    \/ GetAttendanceReport \/ ExportAttendanceCsv

SpecReport == Init /\ [][ReportNext]_vars

(***************************************************************************)
(* Every route of the server, one request at a time, on a small store:    *)
(* one attendee, one session, and administrator writes on the second      *)
(* default administrator.                                                  *)
(***************************************************************************)
StoreInitDatabase == Quiet /\ InitDatabase

GetAdmins == Quiet /\ \E t \in tokens : get_admins(t)

StoreCreateAdmin ==
    Quiet /\ \E t \in tokens, pw \in NewPasswords :
                /\ create_admin(t, [username |-> "pesmarh", password |-> pw])
                /\ uuid'.admin <= MaxAdmin

StoreUpdateAdmin ==
    Quiet /\ \E t \in tokens, pw \in NewPasswords :
                update_admin(t, Len(DefaultAdmins), [username |-> "pesmarh", password |-> pw])

StoreDeleteAdmin == Quiet /\ \E t \in tokens : delete_admin(t, Len(DefaultAdmins))

GetJamaah == Quiet /\ \E t \in tokens : get_jamaah(t)

StoreCreateJamaah == Quiet /\ CreateJamaahUpTo(RaceJamaah)

StoreUpdateJamaah ==
    Quiet /\ \E t \in tokens, id \in 1..RaceJamaah, n \in Names, hp \in {Null, "0812000111"} :
                update_jamaah(t, id, [nama |-> n, hp |-> hp])

StoreDeleteJamaah == Quiet /\ DeleteJamaahUpTo(RaceJamaah)

GetKajian == Quiet /\ \E t \in tokens : get_kajian(t)

StoreUpdateKajian == Quiet /\ UpdateKajianUpTo(MaxKajian, RaceTanggal)

GetKajianPublic == Quiet /\ \E s \in 1..MaxKajian : get_kajian_public(s)

GenerateQrCode == Quiet /\ \E t \in tokens, s \in 1..MaxKajian : generate_qr_code(t, s)

StoreFindKajian == Quiet /\ FindKajianUpTo({1}, RaceJamaah, MaxKajian)

StoreNext ==
    \/ StoreInitDatabase \/ SeqLogin
    \/ GetAdmins \/ StoreCreateAdmin \/ StoreUpdateAdmin \/ StoreDeleteAdmin
    \/ GetJamaah \/ StoreCreateJamaah \/ StoreUpdateJamaah \/ StoreDeleteJamaah
    \/ GetKajian \/ ReportCreateKajian \/ StoreUpdateKajian \/ SeqDeleteKajian
    \/ GetKajianPublic \/ GenerateQrCode
    \/ StoreFindKajian \/ FindJamaah \/ FindExisting \/ ValidateTime \/ InsertPresensi
    \/ GetAttendanceReport \/ ExportAttendanceCsv
    \/ SeqTick

SpecStore == Init /\ [][StoreNext]_vars

(***************************************************************************)
(* The admission window: check-ins one at a time for sessions created and *)
(* updated with different start and end times, an end before the start    *)
(* included.                                                               *)
(***************************************************************************)
JamValues == {"05:00", "23:00"}

WindowKajianInputs ==
    [judul : Titles, tanggal : RaceTanggal, jam_mulai : JamValues, jam_selesai : JamValues]

WindowCreateKajian ==
    Quiet /\ \E t \in tokens, k \in WindowKajianInputs :
                /\ create_kajian(t, k)
                /\ uuid'.kajian <= MaxKajian

WindowUpdateKajian ==
    Quiet /\ \E t \in tokens, id \in 1..MaxKajian, k \in WindowKajianInputs :
                update_kajian(t, id, k)

WindowNext ==
    \/ SeqLogin
    \/ StoreCreateJamaah \/ StoreDeleteJamaah
    \/ WindowCreateKajian \/ WindowUpdateKajian \/ SeqDeleteKajian
    \/ StoreFindKajian \/ FindJamaah \/ FindExisting \/ ValidateTime \/ InsertPresensi
    \/ SeqTick

SpecWindow == Init /\ [][WindowNext]_vars

(***************************************************************************)
(* Properties.  The store is read here directly, not through the          *)
(* handlers' lookups.                                                      *)
(***************************************************************************)
Range(coll) == {coll[i] : i \in 1..Len(coll)}

SessionsWithId(s) == {k \in Range(kajian) : k.id = s}
AttendeeExists(a) == \E j \in Range(jamaah) : j.id = a
SessionExists(s) == SessionsWithId(s) # {}

RecordsIn(coll, a, s) ==
    {i \in 1..Len(coll) : coll[i].id_jamaah = a /\ coll[i].id_kajian = s}
Count(a, s) == Cardinality(RecordsIn(presensi, a, s))

\* the calendar day a stored tanggal names, 0 when it names none
DayOf(tanggal) == IF tanggal[1] = "text" THEN 0 ELSE tanggal[2]
SessionDated(s) == \E k \in SessionsWithId(s) : DayOf(k.tanggal) # 0
SessionToday(s) == \E k \in SessionsWithId(s) : DayOf(k.tanggal) = clock.date
SessionOtherDay(s) ==
    \E k \in SessionsWithId(s) : DayOf(k.tanggal) # 0 /\ DayOf(k.tanggal) # clock.date

Reject(kind) == [status |-> 200, success |-> FALSE, message |-> kind, data |-> None]

JamaahIds == 1..MaxJamaah
KajianIds == 1..MaxKajian

\* This step sends the response of request p, a check-in of attendee a for
\* session s.
CheckInResponds(p, a, s) ==
    \/ /\ req[p].pc = "idle"
       /\ find_kajian(p, [id_jamaah |-> a, id_kajian |-> s])
       /\ req'[p].pc = "idle"
    \/ /\ req[p].pc # "idle"
       /\ req[p].id_jamaah = a /\ req[p].id_kajian = s
       /\ req'[p].pc = "idle"

\* This step is a step of request p.
CheckInStep(p) ==
    \/ \E a \in JamaahIds, s \in KajianIds :
            find_kajian(p, [id_jamaah |-> a, id_kajian |-> s])
    \/ find_jamaah(p) \/ find_existing(p) \/ validate_time(p) \/ insert_presensi(p)

\* C1: the presensi collection never holds two AttendanceRecords for the same
\* (id_jamaah, id_kajian) pair, whatever the interleaving of check-in requests.
C1_AtMostOneRecordPerPair ==
    \A a \in JamaahIds, s \in KajianIds : Count(a, s) <= 1

\* C2: with check-ins submitted one after another, for an existing attendee and
\* an existing session dated today, at an hour in [6,23]: a check-in with no
\* prior record for the pair is accepted and leaves exactly one record for the
\* pair; a check-in with one record already there is answered AlreadyRecorded
\* and the pair still has one record.
C2_OnceThenAlreadyRecorded ==
    [][\A p \in Requests, a \in JamaahIds, s \in KajianIds :
        (CheckInResponds(p, a, s) /\ AttendeeExists(a) /\ SessionToday(s)
            /\ clock.hour \in 6..23)
        => /\ Count(a, s) = 0 =>
                /\ resp'.success /\ resp'.message = Accepted
                /\ Cardinality(RecordsIn(presensi', a, s)) = 1
           /\ Count(a, s) = 1 =>
                /\ resp' = Reject(AlreadyRecorded)
                /\ Cardinality(RecordsIn(presensi', a, s)) = 1]_vars

\* C2 witness: a second check-in for a recorded pair was answered
\* AlreadyRecorded and the pair has exactly one record.
C2_Witness ==
    /\ resp = Reject(AlreadyRecorded)
    /\ \E a \in JamaahIds, s \in KajianIds : Count(a, s) = 1
    /\ Len(presensi) = 1

\* C3 as stated: a check-in for an existing session whose date differs from the
\* current local date is always answered WindowClosed, whoever the attendee is.
C3_WrongDateAlwaysWindowClosed ==
    [][\A p \in Requests, a \in JamaahIds, s \in KajianIds :
        (CheckInResponds(p, a, s) /\ SessionOtherDay(s))
        => resp' = Reject(WindowClosed)]_vars

\* C3 amended: a check-in for an existing session whose date differs from the
\* current local date is never accepted and writes nothing; it is answered
\* WindowClosed when the attendee exists and has no record for the session,
\* AttendeeNotFound when the attendee does not exist.
C3_WrongDateNeverAccepted ==
    [][\A p \in Requests, a \in JamaahIds, s \in KajianIds :
        (CheckInResponds(p, a, s) /\ SessionOtherDay(s))
        => /\ ~resp'.success
           /\ presensi' = presensi
           /\ (AttendeeExists(a) /\ Count(a, s) = 0) => resp' = Reject(WindowClosed)
           /\ ~AttendeeExists(a) => resp' = Reject(AttendeeNotFound)]_vars

\* C3 witness: a request of an existing attendee with no record, for a session
\* dated another day, has reached the window check at an hour in [6,23].
C3_Witness ==
    \E p \in Requests :
        /\ req[p].pc = "validate_time"
        /\ AttendeeExists(req[p].id_jamaah)
        /\ SessionOtherDay(req[p].id_kajian)
        /\ Count(req[p].id_jamaah, req[p].id_kajian) = 0
        /\ clock.hour \in 6..23

\* C4 as stated: every check-in attempted at a local hour in [0,5] is answered
\* WindowClosed (any other outcome occurs only at an hour in [6,23]).
C4_EarlyHourAlwaysWindowClosed ==
    [][\A p \in Requests, a \in JamaahIds, s \in KajianIds :
        (CheckInResponds(p, a, s) /\ clock.hour \in 0..5)
        => resp' = Reject(WindowClosed)]_vars

\* C4 amended: a check-in attempted at a local hour in [0,5] is never accepted
\* (acceptance occurs only at an hour in [6,23]), and it is answered
\* WindowClosed whenever the attendee exists, has no record for the session and
\* the session exists with a calendar date, today's included.
C4_EarlyHourNeverAccepted ==
    [][\A p \in Requests, a \in JamaahIds, s \in KajianIds :
        CheckInResponds(p, a, s)
        => /\ resp'.success => clock.hour \in 6..23
           /\ (clock.hour \in 0..5 /\ AttendeeExists(a) /\ SessionDated(s)
                 /\ Count(a, s) = 0) => resp' = Reject(WindowClosed)]_vars

\* C4 witness: a request of an existing attendee with no record, for a session
\* dated today, has reached the window check at an hour in [0,5].
C4_Witness ==
    \E p \in Requests :
        /\ req[p].pc = "validate_time"
        /\ AttendeeExists(req[p].id_jamaah)
        /\ SessionToday(req[p].id_kajian)
        /\ Count(req[p].id_jamaah, req[p].id_kajian) = 0
        /\ clock.hour \in 0..5

\* The answer the ordered checks give on the current store and clock: session
\* exists, attendee exists, no record for the pair, session date is today,
\* hour in [6,23].
ExpectedAnswer(a, s) ==
    IF ~SessionExists(s) THEN Reject(SessionNotFound)
    ELSE IF ~AttendeeExists(a) THEN Reject(AttendeeNotFound)
    ELSE IF Count(a, s) > 0 THEN Reject(AlreadyRecorded)
    ELSE IF ~SessionToday(s) THEN Reject(WindowClosed)
    ELSE IF clock.hour \notin 6..23 THEN Reject(WindowClosed)
    ELSE [status |-> 200, success |-> TRUE, message |-> Accepted,
          data |-> [jamaah |-> (CHOOSE j \in Range(jamaah) : j.id = a).nama,
                    kajian |-> (CHOOSE k \in Range(kajian) : k.id = s).judul]]

\* the date check is reached with a tanggal that names no calendar day
DateUnreadable(a, s) ==
    SessionExists(s) /\ ~SessionDated(s) /\ AttendeeExists(a) /\ Count(a, s) = 0

\* C5: the answer of a check-in is the rejection of the first failing check in
\* the order session exists, attendee exists, no record for the pair, session
\* date is today, hour in [6,23], and acceptance when none fails.
C5_FirstFailingCheckDecides ==
    [][\A p \in Requests, a \in JamaahIds, s \in KajianIds :
        (CheckInResponds(p, a, s) /\ ~DateUnreadable(a, s))
        => resp' = ExpectedAnswer(a, s)]_vars

\* C5 witness: a request for a recorded pair whose session is dated another
\* day is at the duplicate lookup (two checks fail at once).
C5_Witness ==
    \E p \in Requests :
        /\ req[p].pc = "find_existing"
        /\ Count(req[p].id_jamaah, req[p].id_kajian) = 1
        /\ AttendeeExists(req[p].id_jamaah)
        /\ SessionOtherDay(req[p].id_kajian)

\* C6: a step of a check-in request changes no collection, except the step
\* that sends the accepted response, which appends exactly one record carrying
\* the request's id_jamaah and id_kajian to presensi and changes nothing else;
\* so a rejected check-in writes nothing.
C6_RejectWritesNothing ==
    [][\A p \in Requests :
        CheckInStep(p)
        => /\ admin' = admin /\ jamaah' = jamaah /\ kajian' = kajian
           /\ IF req[p].pc # "idle" /\ req'[p].pc = "idle" /\ resp'.success
              THEN /\ Len(presensi') = Len(presensi) + 1
                   /\ SubSeq(presensi', 1, Len(presensi)) = presensi
                   /\ presensi'[Len(presensi')].id_jamaah = req[p].id_jamaah
                   /\ presensi'[Len(presensi')].id_kajian = req[p].id_kajian
              ELSE presensi' = presensi]_vars

\* C6 witness: one check-in was accepted and recorded, and a later one was
\* rejected.
C6_Witness ==
    /\ Len(presensi) = 1
    /\ resp \in {Reject(AlreadyRecorded), Reject(WindowClosed), Reject(AttendeeNotFound),
                 Reject(SessionNotFound)}

\* C7: no two distinct attendees have the same non-empty phone number.
C7_PhoneUnique ==
    \A i, j \in 1..Len(jamaah) :
        (i # j /\ jamaah[i].hp \notin {Null, ""}) => jamaah[i].hp # jamaah[j].hp

\* C8: no two distinct administrators have the same username.
C8_UsernameUnique ==
    \A i, j \in 1..Len(admin) : i # j => admin[i].username # admin[j].username

TokenValid(t) == \E x \in Range(admin) : x.username = t

\* C9: create_jamaah by an authenticated administrator with a phone number that
\* an attendee in the store already has fails with 400 and inserts nothing;
\* with no phone (null or empty) it always appends one new attendee.
C9_CreateJamaahPhoneConflict ==
    [][\A t \in Usernames, n \in Names, hp \in HpValues :
        (create_jamaah(t, [nama |-> n, hp |-> hp]) /\ TokenValid(t))
        => /\ (hp \notin {Null, ""} /\ \E j \in Range(jamaah) : j.hp = hp)
                => /\ resp' = HTTPException(400, "Phone number already exists")
                   /\ jamaah' = jamaah
           /\ hp \in {Null, ""}
                => /\ resp'.status = 200
                   /\ Len(jamaah') = Len(jamaah) + 1
                   /\ SubSeq(jamaah', 1, Len(jamaah)) = jamaah
                   /\ jamaah'[Len(jamaah')].hp = hp
                   /\ jamaah'[Len(jamaah')].nama = n
                   /\ \A j \in Range(jamaah) : j.id # jamaah'[Len(jamaah')].id]_vars

\* C9 witness: a create_jamaah was refused for its phone number while an
\* attendee without phone is in the store beside one with a phone.
C9_Witness ==
    /\ resp = HTTPException(400, "Phone number already exists")
    /\ \E j \in Range(jamaah) : j.hp \notin {Null, ""}
    /\ \E j \in Range(jamaah) : j.hp \in {Null, ""}

\* C10: create_admin by an authenticated administrator with a username that an
\* administrator in the store already has fails with 400 and leaves the
\* administrator collection unchanged.
C10_CreateAdminUsernameConflict ==
    [][\A t \in Usernames, u \in Usernames, pw \in Passwords :
        (create_admin(t, [username |-> u, password |-> pw]) /\ TokenValid(t)
            /\ \E x \in Range(admin) : x.username = u)
        => /\ resp' = HTTPException(400, "Username already exists")
           /\ admin' = admin]_vars

\* C10 witness: a create_admin was refused for its username.
C10_Witness ==
    /\ resp = HTTPException(400, "Username already exists")
    /\ admin # <<>>

\* the records of session s whose attendee is in the store now
LiveRecords(s) ==
    {i \in 1..Len(presensi) :
        presensi[i].id_kajian = s /\ AttendeeExists(presensi[i].id_jamaah)}

C12_CsvIndexSequential ==
    [][\A t \in Usernames, s \in KajianIds :
        (export_attendance_csv(t, s) /\ TokenValid(t) /\ SessionExists(s))
        => \A k \in 1..(Len(resp'.data.csv) - 1) :
                resp'.data.csv[k + 1][1] = Quoted(DecimalDigits(k))]_vars

\* C13: every record inserted by create_presensi references an attendee and a
\* session that are both in the store at the moment it is inserted, also when
\* delete_jamaah or delete_kajian run between the request's lookups and its
\* insert.
C13_InsertReferencesExisting ==
    [][\A p \in Requests :
        insert_presensi(p)
        => /\ AttendeeExists(presensi'[Len(presensi')].id_jamaah)
           /\ SessionExists(presensi'[Len(presensi')].id_kajian)]_vars

UsernamesOf(coll) == {coll[i].username : i \in 1..Len(coll)}

\* C14: init_database inserts the two default administrators adminrh and
\* pesmarh exactly when the administrator collection is empty and otherwise
\* leaves the store unchanged; running it again right after changes nothing,
\* so twice yields the same administrator usernames as once.
C14_SeedingOnlyWhenEmpty ==
    [][init_database
        => /\ admin = <<>> =>
                /\ Len(admin') = 2
                /\ admin'[1].username = "adminrh"
                /\ verify_password("cintaquran", admin'[1].password_hash)
                /\ admin'[2].username = "pesmarh"
                /\ verify_password("rhmantab", admin'[2].password_hash)
                /\ admin'[1].id # admin'[2].id
           /\ admin # <<>> => admin' = admin
           /\ jamaah' = jamaah /\ kajian' = kajian /\ presensi' = presensi
           /\ SeedAdmins(admin', uuid'.admin) = admin'
           /\ UsernamesOf(SeedAdmins(admin', uuid'.admin)) = UsernamesOf(admin')]_vars

\* C14 witness: the administrator collection was emptied and a restart seeded
\* the two defaults again, under new ids.
C14_Witness ==
    /\ Len(admin) = 2
    /\ admin[1].id > Len(DefaultAdmins)
    /\ UsernamesOf(admin) = {"adminrh", "pesmarh"}
    /\ verify_password("cintaquran", admin[1].password_hash)
    /\ verify_password("rhmantab", admin[2].password_hash)

\* C15: only the accepting step of create_presensi changes the presensi
\* collection, and it appends; a record once stored is never modified or
\* removed by any route, and delete_jamaah and delete_kajian leave the records
\* that reference the deleted attendee or session in place.
C15_PresensiOnlyGrowsByCheckIn ==
    [][/\ presensi' # presensi
            => \E p \in Requests : insert_presensi(p) /\ resp'.success
       /\ Len(presensi') >= Len(presensi)
       /\ SubSeq(presensi', 1, Len(presensi)) = presensi
       /\ \A t \in Usernames, a \in JamaahIds :
            (delete_jamaah(t, a) /\ resp'.status = 200)
            => /\ ~AttendeeExists(a)'
               /\ presensi' = presensi
       /\ \A t \in Usernames, s \in KajianIds :
            (delete_kajian(t, s) /\ resp'.status = 200)
            => /\ ~SessionExists(s)'
               /\ presensi' = presensi]_vars

\* C15 witness: a record is in the store whose attendee and session have both
\* been deleted.
C15_Witness ==
    \E i \in 1..Len(presensi) :
        /\ ~AttendeeExists(presensi[i].id_jamaah)
        /\ ~SessionExists(presensi[i].id_kajian)
        /\ resp = Ok

\* the response that streams the QR image of the check-in URL of session s
QrOf(s) ==
    [status |-> 200, success |-> TRUE, message |-> "OK",
     data |-> [media_type |-> "image/png",
               encodes |-> <<"http://localhost:3000", "/presensi/", s>>]]

\* C16 as stated: for any session id, in the store or not, an authenticated QR
\* request produces the payload {base-url}/presensi/{session-id}, never an
\* error.
C16_QrForAnySessionId ==
    [][\A t \in Usernames, s \in KajianIds :
        (generate_qr_code(t, s) /\ TokenValid(t)) => resp' = QrOf(s)]_vars

\* C16 amended: an authenticated QR request for a session id that is in the
\* store produces the payload {base-url}/presensi/{session-id}; for a session
\* id that is not in the store it fails with 404 "Kajian not found"; either way
\* the store is unchanged.
C16_QrOnlyForExistingSession ==
    [][\A t \in Usernames, s \in KajianIds :
        (generate_qr_code(t, s) /\ TokenValid(t))
        => /\ SessionExists(s) => resp' = QrOf(s)
           /\ ~SessionExists(s) => resp' = HTTPException(404, "Kajian not found")
           /\ UNCHANGED <<admin, jamaah, kajian, presensi>>]_vars

\* C16 witness: the QR code of a stored session was returned.
C16_Witness ==
    \E s \in KajianIds : SessionExists(s) /\ resp = QrOf(s)

\* A session document without its start and end time-of-day.
WithoutHours(doc) == [id |-> doc.id, judul |-> doc.judul, tanggal |-> doc.tanggal]

\* The outcome of a check-in of attendee a for session s read off the sessions
\* without their hours, the attendees, the records and the clock: the answer,
\* and whether a record is inserted.
OutcomeWithoutHours(sessions, a, s) ==
    LET Is(kind) == [answer |-> Reject(kind), inserts |-> FALSE]
    IN IF \A k \in sessions : k.id # s THEN Is(SessionNotFound)
       ELSE IF ~AttendeeExists(a) THEN Is(AttendeeNotFound)
       ELSE IF Count(a, s) > 0 THEN Is(AlreadyRecorded)
       ELSE LET k == CHOOSE k \in sessions : k.id = s
            IN IF DayOf(k.tanggal) = 0
               THEN [answer |-> HTTPException(500, "Internal Server Error"),
                     inserts |-> FALSE]
               ELSE IF DayOf(k.tanggal) # clock.date THEN Is(WindowClosed)
               ELSE IF clock.hour \notin 6..23 THEN Is(WindowClosed)
               ELSE [answer |->
                        [status |-> 200, success |-> TRUE, message |-> Accepted,
                         data |-> [jamaah |-> (CHOOSE j \in Range(jamaah) : j.id = a).nama,
                                   kajian |-> k.judul]],
                     inserts |-> TRUE]

AdminOperation(t) ==
    \/ \E u \in Usernames, pw \in Passwords :
            create_admin(t, [username |-> u, password |-> pw])
    \/ \E id \in 1..MaxAdmin, u \in Usernames, pw \in Passwords :
            update_admin(t, id, [username |-> u, password |-> pw])
    \/ \E id \in 1..MaxAdmin : delete_admin(t, id)

\* C18: a token issued at login for username u authorizes an administrator
\* operation if and only if an administrator with username u is in the store
\* when the request is made: otherwise (the administrator was deleted or
\* renamed) the answer is 401 and nothing changes, and the token is accepted
\* again once an administrator with username u exists again.
C18_TokenValidWhileUsernameExists ==
    [][\A t \in tokens :
        AdminOperation(t)
        => IF \E x \in Range(admin) : x.username = t
           THEN resp'.status # 401
           ELSE /\ resp' = HTTPException(401, "Admin not found")
                /\ UNCHANGED <<admin, jamaah, kajian, presensi, uuid, tokens>>]_vars

\* C18 witness: a request with an issued token was refused with 401 because no
\* administrator has the token's username any more, while other administrators
\* exist.
C18_Witness ==
    /\ resp = HTTPException(401, "Admin not found")
    /\ \E t \in tokens : \A x \in Range(admin) : x.username # t
    /\ admin # <<>>

====
